---- MODULE Spec2Model ----
(***************************************************************************)
(* Model of create_test_image.py: a linear script that allocates a canvas, *)
(* draws five book spines (rectangle, title, author), saves the canvas as  *)
(* test-bookshelf.jpg and prints a confirmation line.                      *)
(*                                                                         *)
(* Every statement of the script is one action.  A statement either        *)
(* completes or raises; the only handler in the script is the bare         *)
(* `except:` around ImageFont.truetype.  The environment (font file,       *)
(* working directory, file system) is a nondeterministic input.            *)
(***************************************************************************)
EXTENDS Integers, Sequences, FiniteSets, TLC

\* Number of times the script is started one after the other in one behaviour.
MaxRuns == 2

----------------------------------------------------------------------------
\* Program constants

width == 1200
height == 800
Background == "#F5E6D3"
SpineTop == 100
SpineBottom == 700
TitleY == 150
AuthorY == 400
TextNudge == 5
Quality == 85
TextFill == "white"
FontPath == "/System/Library/Fonts/Helvetica.ttc"
DefaultFont == "load_default"
Message == "Created test-bookshelf.jpg"

\* The five spine descriptors, in listed order.
BooksLiteral ==
  << [title |-> "1984", author |-> "George Orwell",
      color |-> "#8B4513", x |-> 50, width |-> 80],
     [title |-> "To Kill a Mockingbird", author |-> "Harper Lee",
      color |-> "#4169E1", x |-> 140, width |-> 100],
     [title |-> "The Great Gatsby", author |-> "F. Scott Fitzgerald",
      color |-> "#228B22", x |-> 250, width |-> 90],
     [title |-> "Pride and Prejudice", author |-> "Jane Austen",
      color |-> "#DC143C", x |-> 350, width |-> 95],
     [title |-> "The Catcher in the Rye", author |-> "J.D. Salinger",
      color |-> "#FF8C00", x |-> 455, width |-> 85] >>

----------------------------------------------------------------------------
VARIABLES
  pc,          \* the statement the run is at, or "done" / "error"
  i,           \* 1-based position of the loop `for book in books` (0 outside)
  books,       \* the list `books`
  img,         \* the canvas `img`: its size, background and the draw calls applied
  font,        \* the local `font` ("" while unbound)
  file,        \* test-bookshelf.jpg in the working directory
  fileBefore,  \* what `file` was when this run started
  dirWritable, \* whether the working directory accepts new files
  stdout,      \* lines this run wrote to standard output
  exitCode,    \* -1 while running, 0 normal completion, 1 unhandled exception
  text_x,      \* the local `text_x` (0 while unbound)
  raised,      \* exceptions raised so far in this run, handled or not
  runs         \* number of the current run

vars == << pc, i, books, img, font, text_x, file, fileBefore, dirWritable,
           stdout, exitCode, raised, runs >>

----------------------------------------------------------------------------
\* Values

NoImg == [size |-> << 0, 0 >>, bg |-> "", ops |-> << >>]

\* A draw call recorded on the canvas.
RectOp(box, fill) ==
  [op |-> "rectangle", xy |-> box, fill |-> fill, text |-> "", font |-> ""]

TextOp(xy, text, fill, fnt) ==
  [op |-> "text", xy |-> xy, fill |-> fill, text |-> text, font |-> fnt]

\* File contents are a sequence of blobs; a file written once holds one blob.
Blob(kind, im) ==
  [kind |-> kind, quality |-> IF kind = "JPEG" THEN Quality ELSE 0,
   size |-> im.size, bg |-> im.bg, ops |-> im.ops]

OtherBlob == Blob("other", NoImg)
PartialBlob == Blob("partial", NoImg)

AbsentFile == [exists |-> FALSE, writable |-> FALSE, data |-> << >>]
OldFile(w) == [exists |-> TRUE, writable |-> w, data |-> << OtherBlob >>]

----------------------------------------------------------------------------
\* Pure computations of the script

\* Mutant of NewCanvas: the size tuple given as (height, width).
NewCanvasSwapped == [size |-> << height, width >>, bg |-> Background, ops |-> << >>]

\* Image.new('RGB', (width, height), color='#F5E6D3')
NewCanvas == [size |-> << width, height >>, bg |-> Background, ops |-> << >>]

\* Mutant of SpineBox: the canvas width used where the descriptor's was meant.
SpineBoxGlobalWidth(book) == << book.x, SpineTop, book.x + width, SpineBottom >>

\* [book["x"], 100, book["x"] + book["width"], 700]
SpineBox(book) == << book.x, SpineTop, book.x + book.width, SpineBottom >>

\* Mutant of TextX: the nudge added instead of subtracted.
TextXPlus(book) == book.x + (book.width \div 2) + TextNudge

\* book["x"] + book["width"] // 2 - 5
TextX(book) == book.x + (book.width \div 2) - TextNudge

\* One more draw call applied to the canvas; the size is left alone.
Drawn(im, op) == [im EXCEPT !.ops = Append(@, op)]

\* What img.save(..., 'JPEG', quality=85) encodes.
Encode(im) == Blob("JPEG", im)

\* open(name, "w+b") by save: an existing file must itself be writable, a
\* missing one is created and needs a writable directory.
CanOpen(f, dw) == IF f.exists THEN f.writable ELSE dw

\* Mutant of Saved: the file opened for append, the old content kept.
SavedAppend(f, blob) ==
  [exists |-> TRUE, writable |-> TRUE, data |-> Append(f.data, blob)]

\* The file once save has completed: created or truncated, then written.
Saved(f, blob) == [exists |-> TRUE, writable |-> TRUE, data |-> << blob >>]

\* The file when save raises after the open: it was truncated by the open and
\* holds what had been written; a file this save created may also be removed.
FailedWrite(f) ==
  IF f.exists
    THEN { [f EXCEPT !.data = << PartialBlob >>] }
    ELSE { AbsentFile,
           [exists |-> TRUE, writable |-> TRUE, data |-> << PartialBlob >>] }

----------------------------------------------------------------------------
\* Control

\* An exception nobody handles: the traceback is printed to stderr and the
\* interpreter exits with status 1.
Raise(step) ==
  /\ pc' = "error"
  /\ exitCode' = 1
  /\ raised' = Append(raised, [step |-> step, i |-> i])

Goto(next) ==
  /\ pc' = next
  /\ UNCHANGED << exitCode, raised >>

Init ==
  /\ pc = "import"
  /\ i = 0
  /\ books = << >>
  /\ img = NoImg
  /\ font = ""
  /\ text_x = 0
  /\ file \in { AbsentFile, OldFile(TRUE), OldFile(FALSE) }
  /\ fileBefore = file
  /\ dirWritable \in BOOLEAN
  /\ stdout = << >>
  /\ exitCode = -1
  /\ raised = << >>
  /\ runs = 1

\* from PIL import Image, ImageDraw, ImageFont; import random
Import ==
  /\ pc = "import"
  /\ \/ Goto("new")
     \/ Raise("import")
  /\ UNCHANGED << i, books, img, font, text_x, file, fileBefore, dirWritable,
                  stdout, runs >>

\* width, height = 1200, 800; img = Image.new(...)
ImageNew ==
  /\ pc = "new"
  /\ \/ Goto("Draw") /\ img' = NewCanvas
     \/ Raise("new") /\ UNCHANGED img
  /\ UNCHANGED << i, books, font, text_x, file, fileBefore, dirWritable,
                  stdout, runs >>

\* draw = ImageDraw.Draw(img)
ImageDrawDraw ==
  /\ pc = "Draw"
  /\ \/ Goto("books")
     \/ Raise("Draw")
  /\ UNCHANGED << i, books, img, font, text_x, file, fileBefore, dirWritable,
                  stdout, runs >>

\* books = [ ... ]
BooksAssign ==
  /\ pc = "books"
  /\ books' = BooksLiteral
  /\ Goto("for")
  /\ UNCHANGED << i, img, font, text_x, file, fileBefore, dirWritable,
                  stdout, runs >>

\* Mutant of ForBook: the loop stops one descriptor early.
ForBookOffByOne ==
  /\ pc = "for"
  /\ IF i + 1 < Len(books)
       THEN i' = i + 1 /\ Goto("rectangle")
       ELSE i' = i /\ Goto("save")
  /\ UNCHANGED << books, img, font, text_x, file, fileBefore, dirWritable,
                  stdout, runs >>

\* Mutant of ForBook: the save is skipped, the loop falls through to the print.
ForBookSkipSave ==
  /\ pc = "for"
  /\ IF i < Len(books)
       THEN i' = i + 1 /\ Goto("rectangle")
       ELSE i' = i /\ Goto("print")
  /\ UNCHANGED << books, img, font, text_x, file, fileBefore, dirWritable,
                  stdout, runs >>

\* for book in books: the next descriptor, or past the loop
ForBook ==
  /\ pc = "for"
  /\ IF i < Len(books)
       THEN i' = i + 1 /\ Goto("rectangle")
       ELSE i' = i /\ Goto("save")
  /\ UNCHANGED << books, img, font, text_x, file, fileBefore, dirWritable,
                  stdout, runs >>

\* draw.rectangle([...], fill=book["color"])
DrawRectangle ==
  /\ pc = "rectangle"
  /\ \/ /\ Goto("truetype")
        /\ img' = Drawn(img, RectOp(SpineBox(books[i]), books[i].color))
     \/ Raise("rectangle") /\ UNCHANGED img
  /\ UNCHANGED << i, books, font, text_x, file, fileBefore, dirWritable,
                  stdout, runs >>

\* try: font = ImageFont.truetype("/System/Library/Fonts/Helvetica.ttc", 16)
\* except: (control passes to the handler)
Truetype ==
  /\ pc = "truetype"
  /\ \/ /\ font' = FontPath
        /\ Goto("text_x")
     \/ /\ raised' = Append(raised, [step |-> "truetype", i |-> i])
        /\ pc' = "load_default"
        /\ UNCHANGED << font, exitCode >>
  /\ UNCHANGED << i, books, img, text_x, file, fileBefore, dirWritable,
                  stdout, runs >>

\* Mutant of LoadDefault: the handler binds nothing (`except: pass`).
LoadDefaultUnbound ==
  /\ pc = "load_default"
  /\ \/ /\ font' = font
        /\ Goto("text_x")
     \/ Raise("load_default") /\ UNCHANGED font
  /\ UNCHANGED << i, books, img, text_x, file, fileBefore, dirWritable,
                  stdout, runs >>

\* except: font = ImageFont.load_default()
LoadDefault ==
  /\ pc = "load_default"
  /\ \/ /\ font' = DefaultFont
        /\ Goto("text_x")
     \/ Raise("load_default") /\ UNCHANGED font
  /\ UNCHANGED << i, books, img, text_x, file, fileBefore, dirWritable,
                  stdout, runs >>

\* text_x = book["x"] + book["width"] // 2 - 5
AssignTextX ==
  /\ pc = "text_x"
  /\ text_x' = TextX(books[i])
  /\ Goto("title")
  /\ UNCHANGED << i, books, img, font, file, fileBefore, dirWritable,
                  stdout, runs >>

\* Mutant of DrawTitle: a failure to draw is caught and the run goes on.
DrawTitleSwallow ==
  /\ pc = "title"
  /\ \/ /\ Goto("author")
        /\ img' = Drawn(img, TextOp(<< text_x, TitleY >>, books[i].title,
                                    TextFill, font))
     \/ /\ raised' = Append(raised, [step |-> "title", i |-> i])
        /\ pc' = "author"
        /\ UNCHANGED << img, exitCode >>
  /\ UNCHANGED << i, books, font, text_x, file, fileBefore, dirWritable,
                  stdout, runs >>

\* draw.text((text_x, 150), book["title"], fill='white', font=font)
DrawTitle ==
  /\ pc = "title"
  /\ \/ /\ Goto("author")
        /\ img' = Drawn(img, TextOp(<< text_x, TitleY >>, books[i].title,
                                    TextFill, font))
     \/ Raise("title") /\ UNCHANGED img
  /\ UNCHANGED << i, books, font, text_x, file, fileBefore, dirWritable,
                  stdout, runs >>

\* draw.text((text_x, 400), book["author"], fill='white', font=font)
DrawAuthor ==
  /\ pc = "author"
  /\ \/ /\ Goto("for")
        /\ img' = Drawn(img, TextOp(<< text_x, AuthorY >>, books[i].author,
                                    TextFill, font))
     \/ Raise("author") /\ UNCHANGED img
  /\ UNCHANGED << i, books, font, text_x, file, fileBefore, dirWritable,
                  stdout, runs >>

\* Mutant of Save: the image is written under another name.
SaveWrongName ==
  /\ pc = "save"
  /\ \/ /\ dirWritable
        /\ UNCHANGED file
        /\ Goto("print")
     \/ /\ UNCHANGED file
        /\ Raise("save")
  /\ UNCHANGED << i, books, img, font, text_x, fileBefore, dirWritable,
                  stdout, runs >>

\* Mutant of Save: a failure to save is caught and the run goes on.
SaveBestEffort ==
  /\ pc = "save"
  /\ \/ /\ CanOpen(file, dirWritable)
        /\ file' = Saved(file, Encode(img))
        /\ Goto("print")
     \/ /\ CanOpen(file, dirWritable)
        /\ file' \in FailedWrite(file)
        /\ Goto("print")
     \/ /\ UNCHANGED file
        /\ Goto("print")
  /\ UNCHANGED << i, books, img, font, text_x, fileBefore, dirWritable,
                  stdout, runs >>

\* img.save('test-bookshelf.jpg', 'JPEG', quality=85)
Save ==
  /\ pc = "save"
  /\ \/ /\ CanOpen(file, dirWritable)
        /\ file' = Saved(file, Encode(img))
        /\ Goto("print")
     \/ /\ CanOpen(file, dirWritable)
        /\ file' \in FailedWrite(file)
        /\ Raise("save")
     \/ /\ UNCHANGED file
        /\ Raise("save")
  /\ UNCHANGED << i, books, img, font, text_x, fileBefore, dirWritable,
                  stdout, runs >>

\* print("Created test-bookshelf.jpg"), then the end of the script
PrintCreated ==
  /\ pc = "print"
  /\ \/ /\ stdout' = Append(stdout, Message)
        /\ pc' = "done"
        /\ exitCode' = 0
        /\ UNCHANGED raised
     \/ Raise("print") /\ UNCHANGED stdout
  /\ UNCHANGED << i, books, img, font, text_x, file, fileBefore, dirWritable,
                  runs >>

Terminal == pc \in { "done", "error" }

\* The script is started again in the same working directory.
Rerun ==
  /\ Terminal
  /\ runs < MaxRuns
  /\ runs' = runs + 1
  /\ pc' = "import"
  /\ i' = 0
  /\ books' = << >>
  /\ img' = NoImg
  /\ font' = ""
  /\ text_x' = 0
  /\ fileBefore' = file
  /\ dirWritable' \in BOOLEAN
  /\ stdout' = << >>
  /\ exitCode' = -1
  /\ raised' = << >>
  /\ UNCHANGED file

\* One statement of the running script.
Step ==
  \/ Import
  \/ ImageNew
  \/ ImageDrawDraw
  \/ BooksAssign
  \/ ForBook
  \/ DrawRectangle
  \/ Truetype
  \/ LoadDefault
  \/ AssignTextX
  \/ DrawTitle
  \/ DrawAuthor
  \/ Save
  \/ PrintCreated

Next == Step \/ Rerun

Spec == Init /\ [][Next]_vars

\* A started interpreter keeps executing statements until the script ends.
FairSpec == Spec /\ WF_vars(Step)

----------------------------------------------------------------------------
\* Vocabulary of the properties

\* The preferred font could not be loaded for descriptor k in this run.
TruetypeFailed(k) ==
  \E n \in 1..Len(raised) : raised[n].step = "truetype" /\ raised[n].i = k

FontUsed(k) == IF TruetypeFailed(k) THEN "load_default" ELSE FontPath

\* Draw call number n belongs to descriptor DescOf(n) and is its PartOf(n)-th
\* overlay (0 rectangle, 1 title, 2 author).
DescOf(n) == ((n - 1) \div 3) + 1
PartOf(n) == (n - 1) % 3

\* Draw calls applied when the run stands at statement s of descriptor k.
OpsBefore(s, k) ==
  CASE s \in { "import", "new", "Draw", "books" } -> 0
    [] s = "for" -> 3 * k
    [] s = "rectangle" -> 3 * (k - 1)
    [] s \in { "truetype", "load_default", "text_x", "title" } -> 3 * (k - 1) + 1
    [] s = "author" -> 3 * (k - 1) + 2
    [] s \in { "save", "print", "done" } -> 15

\* The draw calls a single run applies for the first k descriptors when the
\* preferred font loads exactly for the descriptors in ok.
RECURSIVE SingleRunOps(_, _)
SingleRunOps(k, ok) ==
  IF k = 0 THEN << >>
  ELSE LET b == BooksLiteral[k]
           f == IF k \in ok THEN "/System/Library/Fonts/Helvetica.ttc"
                            ELSE "load_default"
           tx == b.x + (b.width \div 2) - 5
       IN  SingleRunOps(k - 1, ok) \o
           << [op |-> "rectangle", xy |-> << b.x, 100, b.x + b.width, 700 >>,
               fill |-> b.color, text |-> "", font |-> ""],
              [op |-> "text", xy |-> << tx, 150 >>, fill |-> "white",
               text |-> b.title, font |-> f],
              [op |-> "text", xy |-> << tx, 400 >>, fill |-> "white",
               text |-> b.author, font |-> f] >>

\* The file a single run leaves when the preferred font loads exactly for ok.
SingleRunFile(ok) ==
  [exists |-> TRUE, writable |-> TRUE,
   data |-> << [kind |-> "JPEG", quality |-> 85, size |-> << 1200, 800 >>,
                bg |-> "#F5E6D3", ops |-> SingleRunOps(5, ok)] >>]

LoadedSet == { k \in 1..5 : ~TruetypeFailed(k) }

----------------------------------------------------------------------------
\* C1 (as stated): every run ends with test-bookshelf.jpg present in the
\* working directory.
C1_AlwaysProduces == Terminal => file.exists

\* C1 (amended): every run terminates, and a run that ends without an
\* unhandled error (exit code 0) ends with test-bookshelf.jpg present,
\* holding the JPEG encoding of this run's canvas.
C1_TerminatesAndProduces ==
  /\ (~Terminal) ~> Terminal
  /\ [](exitCode = 0 =>
          /\ pc = "done"
          /\ file.exists
          /\ file.data = << [kind |-> "JPEG", quality |-> 85, size |-> img.size,
                             bg |-> img.bg, ops |-> img.ops] >>)

\* A run that found no file, completed, and left one.
C1_Witness == pc = "done" /\ ~fileBefore.exists /\ file.exists

----------------------------------------------------------------------------
\* C2: a failed load of the preferred font, for any of the five attempts and
\* in any combination, never ends the run: the default font is substituted,
\* both texts of that spine are drawn with it, and a completed run has drawn
\* every rectangle, title and author, saved the file and printed the line,
\* as a run in which the font loads does.
C2_FontFallback ==
  /\ pc = "error" => raised[Len(raised)].step # "truetype"
  /\ pc = "load_default" => TruetypeFailed(i)
  /\ pc \in { "text_x", "title", "author" } => font = FontUsed(i)
  /\ \A n \in 1..Len(img.ops) :
       img.ops[n].op = "text" => img.ops[n].font = FontUsed(DescOf(n))
  /\ pc = "done" =>
       /\ Len(img.ops) = 15
       /\ \A k \in 1..5 :
            /\ img.ops[3 * k - 2].op = "rectangle"
            /\ img.ops[3 * k - 1].text = BooksLiteral[k].title
            /\ img.ops[3 * k].text = BooksLiteral[k].author
       /\ file.exists /\ file.data[1].ops = img.ops
       /\ stdout = << "Created test-bookshelf.jpg" >>
       /\ exitCode = 0

\* A completed run in which the preferred font failed for spines 1, 3 and 5
\* and loaded for spines 2 and 4.
C2_Witness ==
  /\ pc = "done"
  /\ LoadedSet = { 2, 4 }
  /\ img.ops[2].font = "load_default"
  /\ img.ops[5].font = FontPath

----------------------------------------------------------------------------
\* C3: the font fallback is the only handled failure: an exception raised by
\* any other statement is the last thing the run does.  The run is in the
\* error state with exit code 1, the loop has not advanced, the canvas holds
\* exactly the draw calls made before the failing statement, nothing was
\* printed, and unless the failing statement is the save or the print the
\* file is as it was before the run.
C3_UnhandledStops ==
  /\ pc = "error" => Len(raised) >= 1
  /\ \A n \in 1..Len(raised) :
       raised[n].step # "truetype" =>
         /\ n = Len(raised)
         /\ pc = "error"
         /\ exitCode = 1
         /\ i = raised[n].i
         /\ Len(img.ops) = OpsBefore(raised[n].step, raised[n].i)
         /\ stdout = << >>
         /\ raised[n].step \notin { "save", "print" } => file = fileBefore

\* The title of the third spine could not be drawn.
C3_Witness ==
  /\ pc = "error"
  /\ raised[Len(raised)] = [step |-> "title", i |-> 3]
  /\ Len(img.ops) = 7

----------------------------------------------------------------------------
\* C4 (as stated): in a working directory that is not writable the run ends
\* with an unhandled error, and the file is then absent or as before the run.
C4_NotWritableFails ==
  ~dirWritable =>
    /\ Terminal => pc = "error"
    /\ pc = "error" => (~file.exists \/ file = fileBefore)

\* C4 (amended): in a working directory that is not writable, a run that
\* does not find an existing writable test-bookshelf.jpg ends with an
\* unhandled error, never prints the confirmation, and leaves the file as it
\* was before the run: absent, or unchanged.
C4_NotWritableNoFile ==
  (~dirWritable /\ ~(fileBefore.exists /\ fileBefore.writable)) =>
    /\ Terminal => pc = "error" /\ exitCode = 1
    /\ pc # "print"
    /\ stdout = << >>
    /\ file = fileBefore

\* The save itself failed in a directory that is not writable and holds no file.
C4_Witness ==
  /\ ~dirWritable
  /\ ~fileBefore.exists
  /\ pc = "error"
  /\ raised[Len(raised)].step = "save"
  /\ ~file.exists

----------------------------------------------------------------------------
\* C5: the confirmation line is on standard output exactly when the run has
\* completed normally, and then exactly once, after the save has completed;
\* a run that ends with an error has printed nothing.  A completed run has
\* exit code 0 and standard output holds exactly that line.
C5_Confirmation ==
  /\ stdout \in { << >>, << "Created test-bookshelf.jpg" >> }
  /\ stdout # << >> <=> pc = "done"
  /\ exitCode = 0 <=> pc = "done"
  /\ pc \in { "print", "done" } =>
       /\ file.exists
       /\ Len(file.data) = 1
       /\ file.data[1].kind = "JPEG"
       /\ file.data[1].ops = img.ops
  /\ pc = "error" => stdout = << >> /\ exitCode = 1

C5_Witness ==
  pc = "done" /\ stdout = << "Created test-bookshelf.jpg" >> /\ exitCode = 0

----------------------------------------------------------------------------
\* C6: whatever the file was before (absent, other content, the image of an
\* earlier run) and however many runs preceded, after a completed run the
\* file holds exactly what a single run with the same font availability
\* writes: the old content is replaced, not kept and not appended to.
C6_Idempotent ==
  pc = "done" => file = SingleRunFile(LoadedSet)

\* A second run replaced the image of a first run drawn with other fonts.
C6_Witness ==
  /\ pc = "done"
  /\ runs = 2
  /\ fileBefore.exists
  /\ fileBefore.data[1].kind = "JPEG"
  /\ fileBefore # file

----------------------------------------------------------------------------
\* C7: once allocated the canvas is 1200 wide and 800 high in every state,
\* and every JPEG found in the file is 1200x800, whichever font was used.
C7_Dimensions ==
  /\ img # NoImg => img.size = << 1200, 800 >>
  /\ pc \notin { "import", "new", "error" } => img # NoImg
  /\ \A n \in 1..Len(file.data) :
       file.data[n].kind = "JPEG" => file.data[n].size = << 1200, 800 >>

\* A file written from a canvas whose texts use the default font.
C7_Witness ==
  /\ pc = "done"
  /\ LoadedSet = { }
  /\ file.data[1].size = << 1200, 800 >>

----------------------------------------------------------------------------
\* C8: the draw calls happen in the fixed order rectangle, (font load),
\* title, author for descriptors 1..5 in listed order: at every statement
\* the canvas holds exactly the draw calls that precede it in that order,
\* the file is touched only after all fifteen, a completed run has drawn
\* five rectangles and ten texts, and the descriptors are never mutated.
C8_Order ==
  /\ pc # "error" => Len(img.ops) = OpsBefore(pc, i)
  /\ \A n \in 1..Len(img.ops) :
       LET b == BooksLiteral[DescOf(n)]
           o == img.ops[n]
       IN  CASE PartOf(n) = 0 -> o.op = "rectangle" /\ o.fill = b.color
             [] PartOf(n) = 1 -> o.op = "text" /\ o.text = b.title
             [] PartOf(n) = 2 -> o.op = "text" /\ o.text = b.author
  /\ pc \in { "rectangle", "truetype", "load_default", "text_x", "title",
              "author" } => i \in 1..5
  /\ pc \in { "save", "print", "done" } => i = 5
  /\ file # fileBefore => Len(img.ops) = 15
  /\ pc = "done" =>
       /\ Cardinality({ n \in 1..Len(img.ops) : img.ops[n].op = "rectangle" }) = 5
       /\ Cardinality({ n \in 1..Len(img.ops) : img.ops[n].op = "text" }) = 10
  /\ books \in { << >>, BooksLiteral }

\* The run stands between the author of spine 2 and the rectangle of spine 3.
C8_Witness == pc = "rectangle" /\ i = 3 /\ Len(img.ops) = 6

----------------------------------------------------------------------------
\* C9: the rectangle of the descriptor with position x and width w spans
\* x..x+w by 100..700 in its color; both texts sit at x + floor(w/2) - 5,
\* the title at 150 and the author at 400, and that offset lies inside the
\* spine's rectangle.
C9_Geometry ==
  \A n \in 1..Len(img.ops) :
    LET b == BooksLiteral[DescOf(n)]
        o == img.ops[n]
        off == b.x + (b.width \div 2) - 5
    IN  /\ PartOf(n) = 0 =>
              o.xy = << b.x, 100, b.x + b.width, 700 >> /\ o.fill = b.color
        /\ PartOf(n) = 1 => o.xy = << off, 150 >>
        /\ PartOf(n) = 2 => o.xy = << off, 400 >>
        /\ PartOf(n) # 0 =>
              /\ b.x <= o.xy[1] /\ o.xy[1] <= b.x + b.width
              /\ 100 <= o.xy[2] /\ o.xy[2] <= 700
              /\ 2 * (o.xy[1] + 5 - b.x) \in { b.width - 1, b.width }

\* The author of the fourth spine (odd width 95) has been drawn at 392, 400.
C9_Witness ==
  /\ Len(img.ops) >= 12
  /\ img.ops[12].xy = << 392, 400 >>

----------------------------------------------------------------------------
\* C10: every rectangle drawn lies inside the 1200x800 canvas, and the
\* rectangles are pairwise disjoint and ordered left to right (end points
\* inclusive), so no rectangle overpaints a pixel of an earlier one.
C10_Layout ==
  LET R == { n \in 1..Len(img.ops) : img.ops[n].op = "rectangle" }
  IN  /\ \A n \in R :
            /\ 0 <= img.ops[n].xy[1]
            /\ img.ops[n].xy[1] <= img.ops[n].xy[3]
            /\ img.ops[n].xy[3] < 1200
            /\ 0 <= img.ops[n].xy[2]
            /\ img.ops[n].xy[2] <= img.ops[n].xy[4]
            /\ img.ops[n].xy[4] < 800
      /\ \A m, n \in R : m < n => img.ops[m].xy[3] < img.ops[n].xy[1]
      /\ \A m, n \in R : m # n =>
            \/ img.ops[m].xy[3] < img.ops[n].xy[1]
            \/ img.ops[n].xy[3] < img.ops[m].xy[1]

\* All five rectangles are on the canvas.
C10_Witness ==
  Cardinality({ n \in 1..Len(img.ops) : img.ops[n].op = "rectangle" }) = 5

====
